---- MODULE Spec2Model ----
(***************************************************************************)
(* Model of get_sunsynk_history.py: one run of main(), from argument       *)
(* parsing to the CSV export.                                              *)
(*                                                                         *)
(* Strings are sequences of character codes (ASCII), so that parsing,      *)
(* formatting and sorting are computed the way the Python code computes    *)
(* them.  A date is its proleptic Gregorian ordinal (date.toordinal()),    *)
(* a datetime is the pair <<ordinal, second of the day>>.                  *)
(***************************************************************************)
EXTENDS Integers, Sequences, FiniteSets, TLC

\* ------------------------------------------------------------------------
\* Bounds of the model
\* ------------------------------------------------------------------------
\* longest date range (in days) whose fetch loop is explored
MaxDays == 3
\* most rejected answers to the plant prompt that are explored
MaxPrompts == 1

\* ------------------------------------------------------------------------
\* Characters and strings
\* ------------------------------------------------------------------------
Dash == 45
Dot == 46
Colon == 58
Space == 32
Plus == 43
LBracket == 91
RBracket == 93
Zero == 48

IsDigit(c) == c >= 48 /\ c <= 57

AllDigits(s) == \A i \in 1..Len(s) : IsDigit(s[i])

RECURSIVE DigitsValue(_)
DigitsValue(s) ==
  IF s = <<>> THEN 0
  ELSE 10 * DigitsValue(SubSeq(s, 1, Len(s) - 1)) + (s[Len(s)] - Zero)

\* decimal digits of n >= 0, no padding
RECURSIVE NatToStr(_)
NatToStr(n) ==
  IF n < 10 THEN <<Zero + n>>
  ELSE NatToStr(n \div 10) \o <<Zero + (n % 10)>>

\* zero-padded decimal field, as %Y / %m / %d / %H / %M / %S print it
RECURSIVE Pad(_, _)
Pad(s, width) == IF Len(s) >= width THEN s ELSE Pad(<<Zero>> \o s, width)

\* str.split(sep) on a single separator character
RECURSIVE Split(_, _)
Split(s, sep) ==
  IF \A i \in 1..Len(s) : s[i] # sep THEN <<s>>
  ELSE LET k == CHOOSE i \in 1..Len(s) :
                   s[i] = sep /\ \A j \in 1..(i - 1) : s[j] # sep
       IN <<SubSeq(s, 1, k - 1)>> \o Split(SubSeq(s, k + 1, Len(s)), sep)

\* str.strip() of blanks
RECURSIVE Strip(_)
Strip(s) ==
  IF s = <<>> THEN s
  ELSE IF s[1] = Space THEN Strip(Tail(s))
  ELSE IF s[Len(s)] = Space THEN Strip(SubSeq(s, 1, Len(s) - 1))
  ELSE s

\* Python's string order: code point by code point, a prefix sorts first
RECURSIVE StrLess(_, _)
StrLess(a, b) ==
  IF b = <<>> THEN FALSE
  ELSE IF a = <<>> THEN TRUE
  ELSE IF a[1] # b[1] THEN a[1] < b[1]
  ELSE StrLess(Tail(a), Tail(b))

\* sorted(list(S)) for a set of strings
RECURSIVE sorted_strs(_)
sorted_strs(S) ==
  IF S = {} THEN <<>>
  ELSE LET m == CHOOSE x \in S : \A y \in S : x = y \/ StrLess(x, y)
       IN <<m>> \o sorted_strs(S \ {m})

\* datetime.__lt__: by date, then by time of day
DtLess(a, b) == a[1] < b[1] \/ (a[1] = b[1] /\ a[2] < b[2])

\* sorted(keys) for a set of datetimes
RECURSIVE sorted_datetimes(_)
sorted_datetimes(S) ==
  IF S = {} THEN <<>>
  ELSE LET m == CHOOSE x \in S : \A y \in S : x = y \/ DtLess(x, y)
       IN <<m>> \o sorted_datetimes(S \ {m})

\* ------------------------------------------------------------------------
\* Calendar (datetime.date)
\* ------------------------------------------------------------------------
Years == 2023..2025

IsLeap(y) == (y % 4 = 0) /\ ((y % 100 # 0) \/ (y % 400 = 0))

DaysInMonth(y, m) ==
  IF m = 2 THEN (IF IsLeap(y) THEN 29 ELSE 28)
  ELSE IF m \in {4, 6, 9, 11} THEN 30 ELSE 31

DaysBeforeYear(y) ==
  (y - 1) * 365 + ((y - 1) \div 4) - ((y - 1) \div 100) + ((y - 1) \div 400)

RECURSIVE DaysBeforeMonth(_, _)
DaysBeforeMonth(y, m) ==
  IF m = 1 THEN 0 ELSE DaysBeforeMonth(y, m - 1) + DaysInMonth(y, m - 1)

\* date(y, m, d).toordinal()
ToOrdinal(y, m, d) == DaysBeforeYear(y) + DaysBeforeMonth(y, m) + d

\* date.fromordinal(n), as the record of its year, month and day
FromOrdinal(n) ==
  LET y == CHOOSE yy \in Years :
               DaysBeforeYear(yy) < n /\ n <= DaysBeforeYear(yy + 1)
      r == n - DaysBeforeYear(y)
      m == CHOOSE mm \in 1..12 :
               DaysBeforeMonth(y, mm) < r
               /\ r <= DaysBeforeMonth(y, mm) + DaysInMonth(y, mm)
  IN [year |-> y, month |-> m, day |-> r - DaysBeforeMonth(y, m)]

\* datetime.strptime(s, "%Y-%m-%d").date(): ok = FALSE stands for ValueError
ParseDate(s) ==
  LET f == Split(s, Dash)
      shape == /\ Len(f) = 3
               /\ Len(f[1]) = 4 /\ AllDigits(f[1])
               /\ Len(f[2]) \in 1..2 /\ AllDigits(f[2])
               /\ Len(f[3]) \in 1..2 /\ AllDigits(f[3])
  IN IF ~shape THEN [ok |-> FALSE, date |-> 0]
     ELSE LET y == DigitsValue(f[1])
              m == DigitsValue(f[2])
              d == DigitsValue(f[3])
          IN IF y >= 1 /\ m \in 1..12 /\ d >= 1 /\ d <= DaysInMonth(y, m)
             THEN [ok |-> TRUE, date |-> ToOrdinal(y, m, d)]
             ELSE [ok |-> FALSE, date |-> 0]

\* date.strftime("%Y-%m-%d")
FormatDate(n) ==
  LET ymd == FromOrdinal(n)
  IN Pad(NatToStr(ymd.year), 4) \o <<Dash>> \o Pad(NatToStr(ymd.month), 2)
       \o <<Dash>> \o Pad(NatToStr(ymd.day), 2)

\* ------------------------------------------------------------------------
\* Time of day, datetimes
\* ------------------------------------------------------------------------
\* the value None of a JSON field that is null or missing
None == <<0 - 1>>

\* datetime.strptime(s, fmt).time() for fmt = "%H:%M:%S" (nfields = 3) and
\* fmt = "%H:%M" (nfields = 2); ok = FALSE stands for ValueError
StrpTime(s, nfields) ==
  LET f == Split(s, Colon)
      shape == /\ Len(f) = nfields
               /\ \A i \in 1..Len(f) : Len(f[i]) \in 1..2 /\ AllDigits(f[i])
  IN IF ~shape THEN [ok |-> FALSE, secs |-> 0]
     ELSE LET h == DigitsValue(f[1])
              mi == DigitsValue(f[2])
              se == IF nfields = 3 THEN DigitsValue(f[3]) ELSE 0
          IN IF h <= 23 /\ mi <= 59 /\ se <= 59
             THEN [ok |-> TRUE, secs |-> h * 3600 + mi * 60 + se]
             ELSE [ok |-> FALSE, secs |-> 0]

\* the time of day combined with the day before the requested one
parse_api_timestamp_DayBefore(date_part, time_part_str) ==
  IF time_part_str = None \/ time_part_str = <<>>
  THEN [ok |-> FALSE, dt |-> <<0, 0>>]
  ELSE LET withSecs == StrpTime(time_part_str, 3)
           noSecs == StrpTime(time_part_str, 2)
       IN IF withSecs.ok
          THEN [ok |-> TRUE, dt |-> <<date_part - 1, withSecs.secs>>]
          ELSE IF noSecs.ok
          THEN [ok |-> TRUE, dt |-> <<date_part - 1, noSecs.secs>>]
          ELSE [ok |-> FALSE, dt |-> <<0, 0>>]

\* parse_api_timestamp(date_part, time_part_str); ok = FALSE is None
parse_api_timestamp(date_part, time_part_str) ==
  IF time_part_str = None \/ time_part_str = <<>>
  THEN [ok |-> FALSE, dt |-> <<0, 0>>]
  ELSE LET withSecs == StrpTime(time_part_str, 3)
           noSecs == StrpTime(time_part_str, 2)
       IN IF withSecs.ok
          THEN [ok |-> TRUE, dt |-> <<date_part, withSecs.secs>>]
          ELSE IF noSecs.ok
          THEN [ok |-> TRUE, dt |-> <<date_part, noSecs.secs>>]
          ELSE [ok |-> FALSE, dt |-> <<0, 0>>]

\* the calendar date of a datetime
DateOf(dt) == dt[1]

\* datetime.strftime("%Y-%m-%d %H:%M:%S")
FormatDateTime(dt) ==
  LET secs == dt[2]
  IN FormatDate(DateOf(dt)) \o <<Space>>
       \o Pad(NatToStr(secs \div 3600), 2) \o <<Colon>>
       \o Pad(NatToStr((secs % 3600) \div 60), 2) \o <<Colon>>
       \o Pad(NatToStr(secs % 60), 2)

\* ------------------------------------------------------------------------
\* Values
\* ------------------------------------------------------------------------
RECURSIVE StripLeadingZeros(_)
StripLeadingZeros(s) ==
  IF Len(s) > 1 /\ s[1] = Zero THEN StripLeadingZeros(Tail(s)) ELSE s

RECURSIVE StripTrailingZeros(_)
StripTrailingZeros(s) ==
  IF Len(s) > 1 /\ s[Len(s)] = Zero
  THEN StripTrailingZeros(SubSeq(s, 1, Len(s) - 1)) ELSE s

\* float(s) for plain decimal literals (sign, digits, at most one point);
\* ok = FALSE stands for ValueError
ParseFloat(s) ==
  LET t == Strip(s)
      neg == t # <<>> /\ t[1] = Dash
      body == IF t # <<>> /\ t[1] \in {Dash, Plus} THEN Tail(t) ELSE t
      f == Split(body, Dot)
      ok == /\ Len(f) \in 1..2
            /\ \A i \in 1..Len(f) : AllDigits(f[i])
            /\ \E i \in 1..Len(f) : f[i] # <<>>
  IN IF ~ok THEN [ok |-> FALSE, neg |-> FALSE, int |-> <<>>, frac |-> <<>>]
     ELSE [ok |-> TRUE, neg |-> neg,
           int |-> StripLeadingZeros(IF f[1] = <<>> THEN <<Zero>> ELSE f[1]),
           frac |-> StripTrailingZeros(
                      IF Len(f) = 2 /\ f[2] # <<>> THEN f[2] ELSE <<Zero>>)]

\* format_value(value_str)
format_value(value_str) ==
  IF value_str = None THEN <<>>
  ELSE LET num == ParseFloat(value_str)
           sign == IF num.neg THEN <<Dash>> ELSE <<>>
       IN IF ~num.ok THEN value_str
          ELSE IF num.frac = <<Zero>>
          THEN (IF num.int = <<Zero>> THEN <<Zero>> ELSE sign \o num.int)
          ELSE sign \o num.int \o <<Dot>> \o num.frac

\* int(choice); ok = FALSE stands for ValueError
ParseInt(s) ==
  LET t == Strip(s)
      neg == t # <<>> /\ t[1] = Dash
      body == IF t # <<>> /\ t[1] \in {Dash, Plus} THEN Tail(t) ELSE t
  IN IF body # <<>> /\ AllDigits(body)
     THEN [ok |-> TRUE,
           val |-> IF neg THEN 0 - DigitsValue(body) ELSE DigitsValue(body)]
     ELSE [ok |-> FALSE, val |-> 0]

\* ------------------------------------------------------------------------
\* get_daily_energy_data_restructured: the restructuring of one response
\* ------------------------------------------------------------------------
\* f"{label}[{unit}]" if unit else label
header_name(info_item) ==
  IF info_item.unit = None \/ info_item.unit = <<>> THEN info_item.label
  ELSE info_item.label \o <<LBracket>> \o info_item.unit \o <<RBracket>>

\* the series of a response that have a label
Labelled(infos) ==
  {i \in 1..Len(infos) : infos[i].label # None /\ infos[i].label # <<>>}

\* the records the two loops of lines 290-312 visit, each with its position
\* <<series, record>>, its parsed time, its column key and its value
Visited(infos, target_date) ==
  UNION {{[pos |-> <<i, j>>,
           ts |-> parse_api_timestamp(target_date, infos[i].records[j].time),
           header |-> header_name(infos[i]),
           value |-> infos[i].records[j].value] :
            j \in 1..Len(infos[i].records)} : i \in Labelled(infos)}

\* line 310: a record is stored when its time parses and its value is present
\* the test of line 310 without the test of the value
Accepted_AnyValue(e) == e.ts.ok

\* line 310: datetime_key and record_value_str is not None
Accepted(e) == e.ts.ok /\ e.value # None

\* the order in which the loops visit two records
Before(p, q) == p[1] < q[1] \/ (p[1] = q[1] /\ p[2] < q[2])

\* the entry of a non-empty set of visited records that is visited last
LastOf(es) == CHOOSE e \in es : \A o \in es : o = e \/ Before(o.pos, e.pos)

\* data_by_datetime after the loops: for every key and column the value of
\* the last stored record that writes it
data_by_datetime(infos, target_date) ==
  LET acc == {e \in Visited(infos, target_date) : Accepted(e)}
  IN [k \in {e.ts.dt : e \in acc} |->
        [h \in {e.header : e \in {o \in acc : o.ts.dt = k}} |->
           format_value(
             LastOf({e \in acc : e.ts.dt = k /\ e.header = h}).value)]]

\* ------------------------------------------------------------------------
\* Inputs of a run: command line, clock, environment, user and API answers
\* ------------------------------------------------------------------------
D_0228 == <<50, 48, 50, 52, 45, 48, 50, 45, 50, 56>>  \* "2024-02-28"
D_0229 == <<50, 48, 50, 52, 45, 48, 50, 45, 50, 57>>  \* "2024-02-29"
D_0301 == <<50, 48, 50, 52, 45, 48, 51, 45, 48, 49>>  \* "2024-03-01"
D_0230 == <<50, 48, 50, 52, 45, 48, 50, 45, 51, 48>>  \* "2024-02-30"
D_1201 == <<50, 48, 50, 51, 45, 49, 50, 45, 48, 49>>  \* "2023-12-01"
D_1202 == <<50, 48, 50, 51, 45, 49, 50, 45, 48, 50>>  \* "2023-12-02"
D_short == <<50, 52, 45, 51, 45, 49>>                 \* "24-3-1"

DateArgs == {D_0228, D_0229, D_0301, D_0230, D_1201, D_1202, D_short}

\* date.today() of the run
Todays == {ToOrdinal(2024, 3, 1)}

\* timedelta(days=90)
RetentionDays == 90

\* the resolution without the swap of lines 403-405
ResolveRange_NoSwap(dates, today_) ==
  LET n == Len(dates)
      a == IF n >= 1 THEN ParseDate(dates[1]) ELSE [ok |-> TRUE, date |-> today_]
      b == IF n = 2 THEN ParseDate(dates[2])
           ELSE [ok |-> TRUE, date |-> IF n = 1 THEN today_ - 1 ELSE today_]
  IN IF n > 2 THEN [ok |-> FALSE, exit |-> "usage", start |-> 0, end |-> 0]
     ELSE IF ~a.ok \/ ~b.ok
     THEN [ok |-> FALSE, exit |-> "value_error", start |-> 0, end |-> 0]
     ELSE [ok |-> TRUE, exit |-> "", start |-> a.date, end |-> b.date]

\* the range lines 380-405 resolve for a command line; ok = FALSE when the
\* block leaves through ValueError or SystemExit
ResolveRange(dates, today_) ==
  LET n == Len(dates)
      a == IF n >= 1 THEN ParseDate(dates[1]) ELSE [ok |-> TRUE, date |-> today_]
      b == IF n = 2 THEN ParseDate(dates[2])
           ELSE [ok |-> TRUE, date |-> IF n = 1 THEN today_ - 1 ELSE today_]
  IN IF n > 2 THEN [ok |-> FALSE, exit |-> "usage", start |-> 0, end |-> 0]
     ELSE IF ~a.ok \/ ~b.ok
     THEN [ok |-> FALSE, exit |-> "value_error", start |-> 0, end |-> 0]
     ELSE IF a.date > b.date
     THEN [ok |-> TRUE, exit |-> "swapped", start |-> b.date, end |-> a.date]
     ELSE [ok |-> TRUE, exit |-> "", start |-> a.date, end |-> b.date]

\* the command lines explored: every list of at most two date arguments
\* whose resolved range has at most MaxDays days or which is rejected, and
\* two lists of three arguments
ArgLists ==
  LET upTo2 == {<<>>} \cup {<<a>> : a \in DateArgs}
                 \cup {<<a, b>> : a, b \in DateArgs}
      three == {<<D_0228, D_0229, D_0301>>, <<D_0230, D_0229, D_0301>>}
  IN {d \in upTo2 :
        \A t \in Todays :
          LET r == ResolveRange(d, t)
          IN r.ok => r.end - r.start < MaxDays} \cup three

\* --- credentials: environment, config file, prompt ----------------------
\* SUNSYNK_USERNAME / SUNSYNK_PASSWORD ("" when unset)
EnvInputs == {[u |-> "", p |-> ""], [u |-> "env_u", p |-> ""],
              [u |-> "env_u", p |-> "env_p"]}

\* the config file: missing, unreadable, lacking a field, or complete
CfgInputs == {[exists |-> FALSE, error |-> FALSE, u |-> "", p |-> ""],
              [exists |-> TRUE, error |-> TRUE, u |-> "", p |-> ""],
              [exists |-> TRUE, error |-> FALSE, u |-> "cfg_u", p |-> ""],
              [exists |-> TRUE, error |-> FALSE, u |-> "cfg_u", p |-> "cfg_p"]}

\* the answers to input() and getpass(): end of input, an empty answer, both
PromptInputs == {[eof |-> TRUE, u |-> "", p |-> ""],
                 [eof |-> FALSE, u |-> "typed_u", p |-> ""],
                 [eof |-> FALSE, u |-> "typed_u", p |-> "typed_p"]}

Both(u, p) == u # "" /\ p # ""

\* get_credentials(): username and password ("" for None) and their source
get_credentials(env, cfg, prompt) ==
  LET fromCfg == cfg.exists /\ ~cfg.error /\ Both(cfg.u, cfg.p)
  IN IF Both(env.u, env.p)
     THEN [username |-> env.u, password |-> env.p, source |-> "env",
           save_creds |-> FALSE]
     ELSE IF fromCfg
     THEN [username |-> cfg.u, password |-> cfg.p, source |-> "config",
           save_creds |-> FALSE]
     ELSE IF ~prompt.eof /\ Both(prompt.u, prompt.p)
     THEN [username |-> prompt.u, password |-> prompt.p, source |-> "prompt",
           save_creds |-> TRUE]
     ELSE [username |-> "", password |-> "", source |-> "",
           save_creds |-> FALSE]

\* --- login and plant listing --------------------------------------------
Tokens == {"tok_A"}

\* how the token request ends: a token, or one of the failures of login()
LoginOutcomes == {"ok", "no_token", "success_false", "http_error",
                  "network_error", "json_error"}

\* the value of a variable that holds None
NoneId == 0 - 1

Plant(i, n) == [id |-> i, name |-> n]

\* data["data"]["infos"] of the plant listing
PlantLists == {<<>>, <<Plant(7, "Home")>>, <<Plant(0, "Zero")>>,
               <<Plant(7, "Home"), Plant(9, "Farm")>>}

PlantsOutcomes == {"ok", "success_false", "http_error", "network_error",
                   "json_error"}

\* the answers typed at the plant prompt
C_1 == <<49>>           \* "1"
C_2 == <<50>>           \* "2"
C_3 == <<51>>           \* "3"
C_0 == <<48>>           \* "0"
C_x == <<120>>          \* "x"
C_neg == <<45, 49>>     \* "-1"
C_pad == <<32, 50, 32>> \* " 2 "
C_empty == <<>>         \* ""

Choices == {C_1, C_2, C_3, C_0, C_x, C_neg, C_pad, C_empty}

\* Python truthiness of a plant id
Truthy(id) == id # NoneId /\ id # 0

\* ------------------------------------------------------------------------
\* State of a run
\* ------------------------------------------------------------------------
VARIABLES
  pc,                    \* position in main()
  argv_dates,            \* args.dates
  no_arguments,          \* len(sys.argv) == 1
  today,                 \* date.today()
  username, password,
  start_dt, end_dt, filename_mode,
  access_token,
  plants,
  target_plant_id, target_plant_name,
  prompts,               \* answers read at the plant prompt
  last_choice,           \* the last answer read at the plant prompt
  all_data_by_datetime, all_headers,
  current_loop_date, fetch_interrupted,
  daily_result,          \* how the last call of the day fetch ended
  requests,              \* HTTP requests issued, oldest first
  printed,               \* messages printed (by tag)
  csv,                   \* the output file
  exit_status,           \* Running until the process ends
  interrupted_at         \* where KeyboardInterrupt was raised, "" if nowhere

vars == <<pc, argv_dates, no_arguments, today, username, password,
          start_dt, end_dt, filename_mode, access_token, plants,
          target_plant_id, target_plant_name, prompts,
          all_data_by_datetime, all_headers, current_loop_date,
          fetch_interrupted, daily_result, requests, printed, csv,
          exit_status, last_choice, interrupted_at>>

Running == 0 - 1

NoFile == [exists |-> FALSE, complete |-> FALSE, name |-> <<>>, lines |-> <<>>]

NoCall ==
  [kind |-> "none", reason |-> "", date |-> 0,
   outcome |-> [kind |-> "none", status |-> 0, success |-> FALSE,
                has_infos |-> FALSE, infos |-> <<>>],
   data |-> <<>>]

Init ==
  /\ pc = "start"
  /\ argv_dates \in ArgLists
  /\ no_arguments \in (IF argv_dates = <<>> THEN BOOLEAN ELSE {FALSE})
  /\ today \in Todays
  /\ username = "" /\ password = ""
  /\ start_dt = 0 /\ end_dt = 0 /\ filename_mode = ""
  /\ access_token = ""
  /\ plants = <<>>
  /\ target_plant_id = NoneId /\ target_plant_name = ""
  /\ prompts = 0
  /\ last_choice = <<>>
  /\ all_data_by_datetime = <<>> /\ all_headers = {}
  /\ current_loop_date = 0 /\ fetch_interrupted = FALSE
  /\ daily_result = NoCall
  /\ requests = <<>>
  /\ printed = {}
  /\ csv = NoFile
  /\ exit_status = Running
  /\ interrupted_at = ""

\* main() returns, or sys.exit(code) is called
Exit(code) == pc' = "done" /\ exit_status' = code

\* a request sent without the token of the login
BearerToken_Missing == ""

\* lines 187-190 and 265-268: the Authorization header of a request
BearerToken == access_token

Request(kind, token, plant, day) ==
  [kind |-> kind, token |-> token, plant |-> plant, date |-> day]

\* lines 355-366: the parser; without any argument, usage and sys.exit(0)
ParseArgs ==
  /\ pc = "start"
  /\ IF no_arguments
     THEN Exit(0) /\ printed' = printed \cup {"usage"}
     ELSE pc' = "credentials" /\ UNCHANGED <<exit_status, printed>>
  /\ UNCHANGED <<last_choice, interrupted_at>>
  /\ UNCHANGED <<argv_dates, no_arguments, today, username, password,
                 start_dt, end_dt, filename_mode, access_token, plants,
                 target_plant_id, target_plant_name, prompts,
                 all_data_by_datetime, all_headers, current_loop_date,
                 fetch_interrupted, daily_result, requests, csv>>

\* lines 368-371
GetCredentials ==
  /\ pc = "credentials"
  /\ \E env \in EnvInputs, cfg \in CfgInputs, prompt \in PromptInputs :
       LET c == get_credentials(env, cfg, prompt)
       IN /\ username' = c.username
          /\ password' = c.password
          /\ IF Both(c.username, c.password)
             THEN pc' = "dates" /\ UNCHANGED <<exit_status, printed>>
             ELSE Exit(0) /\ printed' = printed \cup {"no_credentials"}
  /\ UNCHANGED <<last_choice, interrupted_at>>
  /\ UNCHANGED <<argv_dates, no_arguments, today,
                 start_dt, end_dt, filename_mode, access_token, plants,
                 target_plant_id, target_plant_name, prompts,
                 all_data_by_datetime, all_headers, current_loop_date,
                 fetch_interrupted, daily_result, requests, csv>>

\* lines 374-413: the date range
ResolveDates ==
  /\ pc = "dates"
  /\ LET r == ResolveRange(argv_dates, today)
     IN IF r.ok
        THEN /\ start_dt' = r.start
             /\ end_dt' = r.end
             /\ filename_mode' = IF Len(argv_dates) = 0 THEN "today" ELSE "range"
             /\ printed' = IF r.exit = "swapped"
                           THEN printed \cup {"swap_warning"} ELSE printed
             /\ pc' = "ninety"
             /\ UNCHANGED exit_status
        ELSE /\ printed' = printed \cup
                  (IF r.exit = "usage" THEN {"too_many_dates", "usage"}
                   ELSE {"invalid_date_format"})
             /\ Exit(0)
             /\ UNCHANGED <<start_dt, end_dt, filename_mode>>
  /\ UNCHANGED <<last_choice, interrupted_at>>
  /\ UNCHANGED <<argv_dates, no_arguments, today, username, password,
                 access_token, plants,
                 target_plant_id, target_plant_name, prompts,
                 all_data_by_datetime, all_headers, current_loop_date,
                 fetch_interrupted, daily_result, requests, csv>>

\* the 90-day check ending the run when the start is too old
NinetyDayCheck_Aborts ==
  /\ pc = "ninety"
  /\ IF start_dt < today - RetentionDays
     THEN /\ printed' = printed \cup {"ninety_day_warning"}
          /\ Exit(1)
     ELSE /\ pc' = "login"
          /\ UNCHANGED <<printed, exit_status>>
  /\ UNCHANGED <<last_choice, interrupted_at>>
  /\ UNCHANGED <<argv_dates, no_arguments, today, username, password,
                 start_dt, end_dt, filename_mode, access_token, plants,
                 target_plant_id, target_plant_name, prompts,
                 all_data_by_datetime, all_headers, current_loop_date,
                 fetch_interrupted, daily_result, requests, csv>>

\* lines 415-419: the 90-day check
NinetyDayCheck ==
  /\ pc = "ninety"
  /\ LET ninety_days_ago == today - RetentionDays
     IN printed' = IF start_dt < ninety_days_ago
                   THEN printed \cup {"ninety_day_warning"} ELSE printed
  /\ pc' = "login"
  /\ UNCHANGED <<last_choice, interrupted_at>>
  /\ UNCHANGED <<argv_dates, no_arguments, today, username, password,
                 start_dt, end_dt, filename_mode, access_token, plants,
                 target_plant_id, target_plant_name, prompts,
                 all_data_by_datetime, all_headers, current_loop_date,
                 fetch_interrupted, daily_result, requests, csv,
                 exit_status>>

\* lines 422-423 and login()
Login ==
  /\ pc = "login"
  /\ requests' = Append(requests, Request("login", "", NoneId, 0))
  /\ \E outcome \in LoginOutcomes, tok \in Tokens :
       IF outcome = "ok"
       THEN access_token' = tok /\ pc' = "plants"
            /\ UNCHANGED <<exit_status, printed>>
       ELSE access_token' = "" /\ Exit(0)
            /\ printed' = printed \cup {"login_failed"}
  /\ UNCHANGED <<last_choice, interrupted_at>>
  /\ UNCHANGED <<argv_dates, no_arguments, today, username, password,
                 start_dt, end_dt, filename_mode, plants,
                 target_plant_id, target_plant_name, prompts,
                 all_data_by_datetime, all_headers, current_loop_date,
                 fetch_interrupted, daily_result, csv>>

\* lines 425-426 and get_plants()
GetPlants ==
  /\ pc = "plants"
  /\ requests' = Append(requests, Request("plants", BearerToken, NoneId, 0))
  /\ \E outcome \in PlantsOutcomes, infos \in PlantLists :
       IF outcome = "ok" /\ infos # <<>>
       THEN plants' = infos /\ pc' = "select"
            /\ UNCHANGED <<exit_status, printed>>
       ELSE plants' = <<>> /\ Exit(0)
            /\ printed' = printed \cup {"no_plants"}
  /\ UNCHANGED <<last_choice, interrupted_at>>
  /\ UNCHANGED <<argv_dates, no_arguments, today, username, password,
                 start_dt, end_dt, filename_mode, access_token,
                 target_plant_id, target_plant_name, prompts,
                 all_data_by_datetime, all_headers, current_loop_date,
                 fetch_interrupted, daily_result, csv>>

\* after the selection, lines 456-463: stop on a falsy id, else start the loop
AfterSelection(id) ==
  IF Truthy(id)
  THEN pc' = "loop" /\ current_loop_date' = start_dt /\ UNCHANGED exit_status
  ELSE Exit(0) /\ UNCHANGED current_loop_date

\* lines 430-439: one plant is taken as it is, several are listed
SelectPlant ==
  /\ pc = "select"
  /\ IF Len(plants) = 1
     THEN /\ target_plant_id' = plants[1].id
          /\ target_plant_name' = plants[1].name
          /\ AfterSelection(plants[1].id)
     ELSE /\ pc' = "prompt"
          /\ UNCHANGED <<target_plant_id, target_plant_name,
                         current_loop_date, exit_status>>
  /\ UNCHANGED <<last_choice, interrupted_at>>
  /\ UNCHANGED <<argv_dates, no_arguments, today, username, password,
                 start_dt, end_dt, filename_mode, access_token, plants,
                 prompts, all_data_by_datetime, all_headers,
                 fetch_interrupted, daily_result, requests, printed, csv>>

\* the answer k taken as the list index
PlantIndex_OffByOne(k) == k

\* line 443: the list index of the answer k
PlantIndex(k) == k - 1

\* lines 440-451: one answer to the prompt
PromptChoice ==
  /\ pc = "prompt"
  /\ \E choice \in Choices :
       LET n == ParseInt(choice)
           plant_index == PlantIndex(n.val)
       IN /\ last_choice' = choice
          /\ IF n.ok /\ 0 <= plant_index /\ plant_index < Len(plants)
             THEN /\ target_plant_id' = plants[plant_index + 1].id
                  /\ target_plant_name' = plants[plant_index + 1].name
                  /\ AfterSelection(plants[plant_index + 1].id)
                  /\ UNCHANGED printed
             ELSE /\ prompts < MaxPrompts
                  /\ printed' = printed \cup
                       {IF n.ok THEN "invalid_choice" ELSE "invalid_input"}
                  /\ UNCHANGED <<pc, target_plant_id, target_plant_name,
                                 current_loop_date, exit_status>>
  /\ prompts' = prompts + 1
  /\ UNCHANGED interrupted_at
  /\ UNCHANGED <<argv_dates, no_arguments, today, username, password,
                 start_dt, end_dt, filename_mode, access_token, plants,
                 all_data_by_datetime, all_headers,
                 fetch_interrupted, daily_result, requests, csv>>

\* lines 452-454: end of input at the prompt
PromptEof ==
  /\ pc = "prompt"
  /\ printed' = printed \cup {"input_aborted"}
  /\ Exit(0)
  /\ UNCHANGED <<last_choice, interrupted_at>>
  /\ UNCHANGED <<argv_dates, no_arguments, today, username, password,
                 start_dt, end_dt, filename_mode, access_token, plants,
                 target_plant_id, target_plant_name, prompts,
                 all_data_by_datetime, all_headers, current_loop_date,
                 fetch_interrupted, daily_result, requests, csv>>

\* --- the daily energy endpoint ------------------------------------------
L_PV == <<80, 86>>                          \* "PV"
L_SOC == <<83, 79, 67>>                     \* "SOC"
L_Load == <<76, 111, 97, 100>>              \* "Load"
U_W == <<87>>                               \* "W"
U_pct == <<37>>                             \* "%"
T_0830 == <<48, 56, 58, 51, 48>>            \* "08:30"
T_083000 == <<48, 56, 58, 51, 48, 58, 48, 48>>  \* "08:30:00"
T_0900 == <<48, 57, 58, 48, 48>>            \* "09:00"
T_8h30 == <<56, 104, 51, 48>>               \* "8h30"
T_2500 == <<50, 53, 58, 48, 48>>            \* "25:00"
V_123_0 == <<49, 50, 51, 46, 48>>           \* "123.0"
V_45_6 == <<52, 53, 46, 54>>                \* "45.6"
V_na == <<110, 47, 97>>                     \* "n/a"
V_7 == <<55>>                               \* "7"

Rec(t, v) == [time |-> t, value |-> v]

Series(l, u, recs) == [label |-> l, unit |-> u, records |-> recs]

\* data["data"]["infos"] of the daily responses explored
InfosTwoSeries ==
  <<Series(L_PV, U_W, <<Rec(T_0830, V_123_0), Rec(T_0900, V_45_6)>>),
    Series(L_SOC, U_pct, <<Rec(T_083000, V_7), Rec(T_8h30, V_7),
                           Rec(T_0830, V_45_6)>>)>>

InfosLoad ==
  <<Series(L_Load, <<>>, <<Rec(T_0900, V_na), Rec(T_2500, V_7),
                           Rec(T_0830, None)>>),
    Series(<<>>, U_W, <<Rec(T_0830, V_7)>>)>>

InfosUnparseable ==
  <<Series(L_PV, U_W, <<Rec(T_8h30, V_7), Rec(None, V_7), Rec(T_0900, None)>>)>>

InfosNoRecords == <<Series(L_PV, U_W, <<>>), Series(None, U_W, <<>>)>>

Body(success, has_infos, infos) ==
  [kind |-> "body", status |-> 200, success |-> success,
   has_infos |-> has_infos, infos |-> infos]

Failure(kind, status) ==
  [kind |-> kind, status |-> status, success |-> FALSE,
   has_infos |-> FALSE, infos |-> <<>>]

\* how one request to the daily endpoint can end
DayOutcomes ==
  {Failure("http_error", 401), Failure("http_error", 429),
   Failure("http_error", 500), Failure("network_error", 0),
   Failure("json_error", 200),
   Body(FALSE, TRUE, InfosTwoSeries), Body(TRUE, FALSE, <<>>),
   Body(TRUE, TRUE, <<>>), Body(TRUE, TRUE, InfosNoRecords),
   Body(TRUE, TRUE, InfosUnparseable),
   Body(TRUE, TRUE, InfosTwoSeries), Body(TRUE, TRUE, InfosLoad)}

Absent(reason) == [kind |-> "absent", reason |-> reason, data |-> <<>>]

\* the HTTPError handler with 429 escalated like 401
http_error_result_429Raises(status) ==
  IF status = 401
  THEN [kind |-> "raise", reason |-> "http_401", data |-> <<>>]
  ELSE IF status = 429
  THEN [kind |-> "raise", reason |-> "http_429", data |-> <<>>]
  ELSE Absent("http_other")

\* lines 335-343: the HTTPError handler
http_error_result(status) ==
  IF status = 401
  THEN [kind |-> "raise", reason |-> "http_401", data |-> <<>>]
  ELSE IF status = 429 THEN Absent("http_429")
  ELSE Absent("http_other")

\* get_daily_energy_data_restructured(access_token, plant_id, target_date)
\* for a request that ends as `outcome`: "raise" is ConnectionAbortedError,
\* "absent" is the return of None, "data" the return of a dict
get_daily_energy_data_restructured(outcome, target_date) ==
  IF outcome.kind = "http_error" THEN http_error_result(outcome.status)
  ELSE IF outcome.kind = "network_error" THEN Absent("network_error")
  ELSE IF outcome.kind = "json_error" THEN Absent("json_error")
  ELSE IF ~(outcome.success /\ outcome.has_infos) THEN Absent("api_fail")
  ELSE IF outcome.infos = <<>> THEN Absent("no_infos")
  ELSE LET d == data_by_datetime(outcome.infos, target_date)
           records_found_for_day ==
             \E i \in Labelled(outcome.infos) :
                outcome.infos[i].records # <<>>
       IN IF DOMAIN d # {}
          THEN [kind |-> "data", reason |-> "ok", data |-> d]
          ELSE IF records_found_for_day THEN Absent("unparseable")
          ELSE Absent("no_records")

\* the union of the column keys of a day's rows (lines 471-472)
HeadersOf(daily_data_dict) ==
  UNION {DOMAIN daily_data_dict[k] : k \in DOMAIN daily_data_dict}

\* dict.update: the rows of `daily` replace the rows with the same key
Update(all, daily) == daily @@ all

\* the loop condition with the last day left out
LoopCondition_Exclusive == current_loop_date < end_dt

\* line 465: the loop condition
LoopCondition == current_loop_date <= end_dt

\* line 479: the day after d
NextDay(d) == d + 1

\* the except clause without the reset of the rows
AbortedDataset_Kept(all) == all

\* line 476: the rows kept when the fetch raised ConnectionAbortedError
AbortedDataset(all) == <<>>

\* lines 465-479: one iteration of the range loop
FetchDay ==
  /\ pc = "loop"
  /\ LoopCondition
  /\ requests' = Append(requests, Request("day", BearerToken,
                                          target_plant_id, current_loop_date))
  /\ \E outcome \in DayOutcomes :
       LET r == get_daily_energy_data_restructured(outcome, current_loop_date)
       IN /\ daily_result' = [kind |-> r.kind, reason |-> r.reason,
                              date |-> current_loop_date,
                              outcome |-> outcome, data |-> r.data]
          /\ IF r.kind = "raise"
             THEN /\ fetch_interrupted' = TRUE
                  /\ all_data_by_datetime' = AbortedDataset(all_data_by_datetime)
                  /\ printed' = printed \cup {"auth_stop"}
                  /\ pc' = "export"
                  /\ UNCHANGED <<all_headers, current_loop_date>>
             ELSE /\ IF r.kind = "data"
                     THEN /\ all_data_by_datetime' =
                               Update(all_data_by_datetime, r.data)
                          /\ all_headers' = all_headers \cup HeadersOf(r.data)
                     ELSE UNCHANGED <<all_data_by_datetime, all_headers>>
                  /\ current_loop_date' = NextDay(current_loop_date)
                  /\ UNCHANGED <<pc, fetch_interrupted, printed>>
  /\ UNCHANGED <<last_choice, interrupted_at>>
  /\ UNCHANGED <<argv_dates, no_arguments, today, username, password,
                 start_dt, end_dt, filename_mode, access_token, plants,
                 target_plant_id, target_plant_name, prompts, csv,
                 exit_status>>

\* line 465: the loop condition fails
LoopEnd ==
  /\ pc = "loop"
  /\ ~LoopCondition
  /\ pc' = "export"
  /\ UNCHANGED <<last_choice, interrupted_at>>
  /\ UNCHANGED <<argv_dates, no_arguments, today, username, password,
                 start_dt, end_dt, filename_mode, access_token, plants,
                 target_plant_id, target_plant_name, prompts,
                 all_data_by_datetime, all_headers, current_loop_date,
                 fetch_interrupted, daily_result, requests, printed, csv,
                 exit_status>>

\* --- CSV export ----------------------------------------------------------
DateTimeStr == <<68, 97, 116, 101, 84, 105, 109, 101>>  \* "DateTime"

\* lines 490-491
final_fieldnames(headers) == <<DateTimeStr>> \o sorted_strs(headers)

\* lines 521-523: the dict handed to the writer for one timestamp
row_to_write(dt_key, timestamp_data) ==
  timestamp_data @@ (DateTimeStr :> FormatDateTime(dt_key))

\* a writer that leaves out the cells the row has no key for
CsvLine_OmitsMissing(fieldnames, row) ==
  LET present == SelectSeq(fieldnames, LAMBDA f : f \in DOMAIN row)
  IN [i \in 1..Len(present) |-> row[present[i]]]

\* csv.DictWriter.writerow: one cell per field, restval "" where the row has
\* no such key
CsvLine(fieldnames, row) ==
  [i \in 1..Len(fieldnames) |->
     IF fieldnames[i] \in DOMAIN row THEN row[fieldnames[i]] ELSE <<>>]

\* lines 514-524: the header line and one line per timestamp
CsvLines(data, headers) ==
  LET fieldnames == final_fieldnames(headers)
      keys == sorted_datetimes(DOMAIN data)
  IN <<fieldnames>> \o
     [i \in 1..Len(keys) |->
        CsvLine(fieldnames, row_to_write(keys[i], data[keys[i]]))]

\* lines 493-499
output_filename ==
  [plant |-> target_plant_id,
   start |-> FormatDate(start_dt),
   end |-> FormatDate(end_dt),
   form |-> IF filename_mode = "today" THEN "today"
            ELSE IF FormatDate(start_dt) = FormatDate(end_dt) THEN "single"
            ELSE "range"]

\* how the file system answers: makedirs fails, open fails, a write fails
\* after some lines, or all goes well
IoOutcomes == {"ok", "mkdir_error", "open_error", "write_error"}

\* the export without its two refusals
RefusedWith_Never == ""

\* lines 482-487: the message with which the export is refused, "" if it
\* is not refused
RefusedWith ==
  IF fetch_interrupted \/ DOMAIN all_data_by_datetime = {} THEN "no_csv"
  ELSE IF all_headers = {} THEN "no_labels"
  ELSE ""

\* lines 482-531
ExportCsv ==
  /\ pc = "export"
  /\ IF RefusedWith # ""
     THEN printed' = printed \cup {RefusedWith} /\ UNCHANGED csv
     ELSE \E io \in IoOutcomes :
            LET lines == CsvLines(all_data_by_datetime, all_headers)
            IN IF io = "ok"
               THEN /\ csv' = [exists |-> TRUE, complete |-> TRUE,
                               name |-> output_filename, lines |-> lines]
                    /\ printed' = printed \cup {"written"}
               ELSE IF io = "write_error"
               THEN /\ \E k \in 0..(Len(lines) - 1) :
                         csv' = [exists |-> TRUE, complete |-> FALSE,
                                 name |-> output_filename,
                                 lines |-> SubSeq(lines, 1, k)]
                    /\ printed' = printed \cup {"io_error"}
               ELSE /\ UNCHANGED csv
                    /\ printed' = printed \cup {"io_error"}
  /\ Exit(0)
  /\ UNCHANGED <<last_choice, interrupted_at>>
  /\ UNCHANGED <<argv_dates, no_arguments, today, username, password,
                 start_dt, end_dt, filename_mode, access_token, plants,
                 target_plant_id, target_plant_name, prompts,
                 all_data_by_datetime, all_headers, current_loop_date,
                 fetch_interrupted, daily_result, requests>>

\* --- user interrupt --------------------------------------------------------
\* exit status of a Python process ended by an uncaught KeyboardInterrupt
SigintStatus == 128 + 2

\* a loop that catches the interrupt and breaks out to the export
KeyboardInterrupt_Caught ==
  /\ pc # "done"
  /\ interrupted_at' = pc
  /\ IF pc = "loop"
     THEN pc' = "export" /\ UNCHANGED <<printed, exit_status>>
     ELSE printed' = printed \cup {"traceback"} /\ Exit(SigintStatus)
  /\ UNCHANGED last_choice
  /\ UNCHANGED <<argv_dates, no_arguments, today, username, password,
                 start_dt, end_dt, filename_mode, access_token, plants,
                 target_plant_id, target_plant_name, prompts,
                 all_data_by_datetime, all_headers, current_loop_date,
                 fetch_interrupted, daily_result, requests, csv>>

\* Ctrl-C: main() has no handler for KeyboardInterrupt, so wherever it is
\* raised it leaves main() and ends the process
KeyboardInterrupt ==
  /\ pc # "done"
  /\ interrupted_at' = pc
  /\ printed' = printed \cup {"traceback"}
  /\ Exit(SigintStatus)
  /\ UNCHANGED last_choice
  /\ UNCHANGED <<argv_dates, no_arguments, today, username, password,
                 start_dt, end_dt, filename_mode, access_token, plants,
                 target_plant_id, target_plant_name, prompts,
                 all_data_by_datetime, all_headers, current_loop_date,
                 fetch_interrupted, daily_result, requests, csv>>

Next ==
  \/ ParseArgs
  \/ GetCredentials
  \/ ResolveDates
  \/ NinetyDayCheck
  \/ Login
  \/ GetPlants
  \/ SelectPlant
  \/ PromptChoice
  \/ PromptEof
  \/ FetchDay
  \/ LoopEnd
  \/ ExportCsv
  \/ KeyboardInterrupt

Spec == Init /\ [][Next]_vars

\* ------------------------------------------------------------------------
\* Properties
\* ------------------------------------------------------------------------
IsDayRequest(r) == r.kind = "day"

\* the requests to the daily endpoint, oldest first
DayRequests == SelectSeq(requests, IsDayRequest)

\* lines 482-531 have run
ExportRan == printed \cap {"no_csv", "no_labels", "written", "io_error"} # {}

\* the range loop has been left through its condition or through break
LoopLeft == pc = "export" \/ (pc = "done" /\ ExportRan)

\* the step is one call of the day fetch
IsFetchStep == pc = "loop" /\ requests' # requests

\* C1: the day requests issued so far are for start, start + 1, ... in this
\* order, none beyond end; and once the loop has been left without an
\* authentication failure there is exactly one request for every day of
\* [start, end].
C1_OneFetchPerDayAscending ==
  /\ \A i \in 1..Len(DayRequests) :
        /\ DayRequests[i].date = start_dt + (i - 1)
        /\ DayRequests[i].date <= end_dt
  /\ (LoopLeft /\ ~fetch_interrupted) =>
        /\ start_dt <= end_dt
        /\ Len(DayRequests) = end_dt - start_dt + 1

\* a three-day range whose loop ran to its end
C1_Witness ==
  /\ pc = "export" /\ ~fetch_interrupted
  /\ end_dt = start_dt + 2
  /\ Len(DayRequests) = 3

\* C2: after an authentication failure the request that met it is the last
\* request of the run, the Dataset is empty and no file exists, whatever the
\* earlier days returned.
C2_AuthFailureDiscardsAll ==
  fetch_interrupted =>
    /\ daily_result.kind = "raise" /\ daily_result.reason = "http_401"
    /\ requests[Len(requests)].kind = "day"
    /\ requests[Len(requests)].date = daily_result.date
    /\ DOMAIN all_data_by_datetime = {}
    /\ ~csv.exists
    /\ pc \in {"export", "done"}

\* the run has ended after a 401 on the third day, the first days had data
C2_Witness ==
  /\ pc = "done" /\ fetch_interrupted /\ interrupted_at = ""
  /\ Len(DayRequests) = 3
  /\ Cardinality(all_headers) >= 3

\* the failures of a day other than HTTP 401, by the reason the fetch logs
SkippedDayReasons ==
  {"http_429", "http_other", "network_error", "json_error", "api_fail",
   "no_infos", "no_records", "unparseable"}

\* C3: a day fetch that fails for a reason other than HTTP 401 leaves the
\* rows and the column keys as they were and the loop goes on with the next
\* day; only HTTP 401 raises; and no step without an authentication failure
\* removes a timestamp or a column key.
C3_SkippedDayChangesNothing ==
  [][/\ (IsFetchStep /\ daily_result'.kind # "data") =>
           \/ /\ daily_result'.reason \in SkippedDayReasons
              /\ all_data_by_datetime' = all_data_by_datetime
              /\ all_headers' = all_headers
              /\ pc' = "loop"
              /\ current_loop_date' = current_loop_date + 1
           \/ /\ daily_result'.reason = "http_401"
              /\ fetch_interrupted'
     /\ ~fetch_interrupted' =>
           /\ DOMAIN all_data_by_datetime \subseteq DOMAIN all_data_by_datetime'
           /\ all_headers \subseteq all_headers'
    ]_vars

\* a rate-limited day after a day with data: the rows are still there and
\* the loop is at the next day
C3_Witness ==
  /\ pc = "loop"
  /\ daily_result.reason = "http_429"
  /\ current_loop_date = daily_result.date + 1
  /\ Len(DayRequests) = 2
  /\ DOMAIN all_data_by_datetime # {}

\* C4 (as claimed): a run interrupted by the user during the day loop with
\* rows accumulated ends with those rows written to the CSV file.
C4_InterruptWritesPartialCsv ==
  (pc = "done" /\ interrupted_at = "loop"
     /\ DOMAIN all_data_by_datetime # {}) =>
    /\ csv.exists
    /\ csv.lines = CsvLines(all_data_by_datetime, all_headers)

\* C4 (amended): a user interrupt during the day loop is not caught; it ends
\* the run at once with a non-zero exit status, issues no further request
\* and writes no file, so the rows accumulated so far are not exported.
C4_InterruptEndsRunWithoutCsv ==
  [][(pc = "loop" /\ interrupted_at' # "") =>
        /\ interrupted_at' = "loop"
        /\ pc' = "done"
        /\ exit_status' # 0
        /\ ~csv'.exists
        /\ requests' = requests
    ]_vars

\* interrupted on the third day with rows of the first two days in memory
C4_Witness ==
  /\ pc = "done" /\ interrupted_at = "loop"
  /\ Len(DayRequests) = 2
  /\ Cardinality(DOMAIN all_data_by_datetime) >= 2
  /\ ~csv.exists

\* the range the claim gives for a command line: zero dates [today, today],
\* one date D [D, today - 1], two dates [D1, D2], swapped when start > end
ClaimedRange ==
  LET n == Len(argv_dates)
      first == IF n = 0 THEN today ELSE ParseDate(argv_dates[1]).date
      second == IF n = 0 THEN today
                ELSE IF n = 1 THEN today - 1
                ELSE ParseDate(argv_dates[2]).date
  IN IF first > second THEN <<second, first>> ELSE <<first, second>>

\* C5: every run that gets past the date arguments has at most two of them
\* and the range the claim gives for them, with start <= end.
C5_RangeResolution ==
  pc \in {"ninety", "login", "plants", "select", "prompt", "loop", "export"} =>
    /\ Len(argv_dates) <= 2
    /\ <<start_dt, end_dt>> = ClaimedRange
    /\ start_dt <= end_dt

\* one date argument that is today: [today, yesterday] is swapped and the
\* loop starts at yesterday
C5_Witness ==
  /\ pc = "loop"
  /\ Len(argv_dates) = 1
  /\ "swap_warning" \in printed
  /\ start_dt = today - 1 /\ end_dt = today
  /\ current_loop_date = start_dt

\* the resolved start is older than the retention window
TooOld == start_dt < today - RetentionDays

\* C6 (as claimed): with a start older than today - 90 days (the command
\* line has no override flag) the run ends with a non-zero exit status
\* before any request.
C6_TooOldAborts ==
  (pc \in {"login", "plants", "select", "prompt", "loop", "export", "done"}
     /\ start_dt # 0 /\ TooOld) =>
    /\ requests = <<>>
    /\ pc = "done" /\ exit_status # 0

\* C6 (amended): the 90-day check only warns: it prints the warning exactly
\* when the start is older than today - 90 days and in every case goes on to
\* the login; it never ends the run.
C6_TooOldOnlyWarns ==
  [][(pc = "ninety" /\ interrupted_at' = "") =>
        /\ pc' = "login"
        /\ exit_status' = Running
        /\ ("ninety_day_warning" \in printed') <=> TooOld
    ]_vars

\* a range older than 90 days whose days are being fetched
C6_Witness ==
  /\ TooOld /\ start_dt # 0
  /\ "ninety_day_warning" \in printed
  /\ pc = "loop"
  /\ Len(DayRequests) >= 1

\* C7: a run with a malformed date argument or more than two date arguments
\* prints an error, issues no request and ends with a non-zero exit status.
C7_BadDatesExitNonZero ==
  (pc = "done" /\ interrupted_at = ""
     /\ printed \cap {"invalid_date_format", "too_many_dates"} # {}) =>
    /\ requests = <<>>
    /\ exit_status # 0

\* the cell c is the datetime k written as YYYY-MM-DD HH:MM:SS
IsCanonical(c, k) ==
  /\ Len(c) = 19
  /\ c[5] = Dash /\ c[8] = Dash /\ c[11] = Space
  /\ c[14] = Colon /\ c[17] = Colon
  /\ \A i \in (1..19) \ {5, 8, 11, 14, 17} : IsDigit(c[i])
  /\ ParseDate(SubSeq(c, 1, 10)) = [ok |-> TRUE, date |-> k[1]]
  /\ StrpTime(SubSeq(c, 12, 19), 3) = [ok |-> TRUE, secs |-> k[2]]

\* the Dataset timestamps a first cell stands for
KeysOfCell(c) == {k \in DOMAIN all_data_by_datetime : IsCanonical(c, k)}

\* C8: a completely written file has the header DateTime followed by the
\* column keys in ascending order, one line per Dataset timestamp in strictly
\* ascending order of the timestamps, first cell YYYY-MM-DD HH:MM:SS, and in
\* every line one cell per column: the row's value, or the empty string where
\* the row has none.
C8_CsvLayout ==
  (csv.exists /\ csv.complete) =>
    LET header == csv.lines[1]
        nrows == Len(csv.lines) - 1
    IN /\ header[1] = DateTimeStr
       /\ {header[c] : c \in 2..Len(header)} = all_headers
       /\ \A c \in 2..(Len(header) - 1) : StrLess(header[c], header[c + 1])
       /\ nrows = Cardinality(DOMAIN all_data_by_datetime)
       /\ \A i \in 2..Len(csv.lines) :
            /\ Len(csv.lines[i]) = Len(header)
            /\ Cardinality(KeysOfCell(csv.lines[i][1])) = 1
            /\ \A k \in KeysOfCell(csv.lines[i][1]) :
                 /\ \A c \in 2..Len(header) :
                      csv.lines[i][c] =
                        IF header[c] \in DOMAIN all_data_by_datetime[k]
                        THEN all_data_by_datetime[k][header[c]]
                        ELSE <<>>
                 /\ \A j \in (i + 1)..Len(csv.lines) :
                      \A k2 \in KeysOfCell(csv.lines[j][1]) : DtLess(k, k2)

\* a file of three rows and three columns, rows of two days, with an empty
\* cell
C8_Witness ==
  /\ csv.exists /\ csv.complete
  /\ Len(csv.lines) = 4
  /\ Len(csv.lines[1]) = 4
  /\ \E i \in 2..4 : \E c, e \in 2..4 :
        csv.lines[i][c] = <<>> /\ csv.lines[i][e] # <<>>
  /\ \E k1, k2 \in DOMAIN all_data_by_datetime : DateOf(k1) # DateOf(k2)

\* C9: a file exists only if the Dataset and the column-key set are both
\* non-empty and no authentication failure ended the loop; a run whose
\* export finds the Dataset or the column-key set empty ends with exit
\* status 0 and without a file.
C9_NoFileWithoutData ==
  /\ csv.exists =>
       /\ DOMAIN all_data_by_datetime # {}
       /\ all_headers # {}
       /\ ~fetch_interrupted
  /\ (pc = "done" /\ ExportRan
        /\ (DOMAIN all_data_by_datetime = {} \/ all_headers = {})) =>
       /\ ~csv.exists
       /\ exit_status = 0

\* three days fetched, none with data: the export is refused
C9_Witness ==
  /\ pc = "done" /\ "no_csv" \in printed
  /\ ~fetch_interrupted
  /\ Len(DayRequests) = 3
  /\ DOMAIN all_data_by_datetime = {}
  /\ ~csv.exists /\ exit_status = 0

\* the number an answer to the plant prompt stands for; no entry for an
\* answer that is not a number
EnteredNumber ==
  (C_1 :> 1) @@ (C_2 :> 2) @@ (C_pad :> 2) @@ (C_3 :> 3) @@ (C_0 :> 0)
    @@ (C_neg :> 0 - 1)

\* the answer is a number k with 1 <= k <= number of plants
ValidChoice(choice) ==
  /\ choice \in DOMAIN EnteredNumber
  /\ EnteredNumber[choice] \in 1..Len(plants)

\* a plant has been selected and main() went on to the loop
Selected == pc \in {"loop", "export"} \/ (pc = "done" /\ DayRequests # <<>>)

\* C10: day requests are issued only for a plant of a non-empty listing; one
\* plant is selected without a prompt; with several plants the selected one is
\* the k-th entry for the valid answer k read last, every other answer leaves
\* the run at the prompt with nothing selected, and end of input ends the run
\* without a day request.
C10_PlantSelection ==
  /\ \A i \in 1..Len(DayRequests) :
        /\ plants # <<>>
        /\ DayRequests[i].plant = target_plant_id
  /\ (Selected /\ Len(plants) = 1) =>
        /\ prompts = 0
        /\ target_plant_id = plants[1].id
        /\ target_plant_name = plants[1].name
  /\ (Selected /\ Len(plants) # 1) =>
        /\ Len(plants) > 1
        /\ ValidChoice(last_choice)
        /\ target_plant_id = plants[EnteredNumber[last_choice]].id
        /\ target_plant_name = plants[EnteredNumber[last_choice]].name
  /\ pc = "prompt" =>
        /\ Len(plants) > 1
        /\ target_plant_id = NoneId
        /\ (prompts > 0 => ~ValidChoice(last_choice))
        /\ DayRequests = <<>>
  /\ "input_aborted" \in printed =>
        /\ pc = "done"
        /\ target_plant_id = NoneId
        /\ DayRequests = <<>>

\* two plants, one rejected answer, then the answer for the second entry
C10_Witness ==
  /\ pc = "loop"
  /\ Len(plants) = 2
  /\ prompts = 2
  /\ printed \cap {"invalid_choice", "invalid_input"} # {}
  /\ ValidChoice(last_choice) /\ EnteredNumber[last_choice] = 2
  /\ target_plant_id = plants[2].id /\ target_plant_name = plants[2].name
  /\ Len(DayRequests) = 1

\* the positions in the request log of the requests of one kind
RequestsOfKind(kind) == {i \in 1..Len(requests) : requests[i].kind = kind}

\* C11: requests are issued only with a non-empty username and password; the
\* first request is the one login of the run; the plant listing is requested
\* once, after a login that returned a token; day requests come after it, for
\* the selected plant; and every listing and day request carries the token
\* the login returned.
C11_PipelineOrder ==
  /\ requests # <<>> =>
        /\ username # "" /\ password # ""
        /\ RequestsOfKind("login") = {1}
  /\ RequestsOfKind("plants") \subseteq {2}
  /\ \A i \in 1..Len(requests) :
        /\ requests[i].kind \in {"login", "plants", "day"}
        /\ requests[i].kind # "login" =>
              /\ access_token \in Tokens
              /\ requests[i].token = access_token
        /\ requests[i].kind = "day" =>
              /\ i >= 3
              /\ requests[2].kind = "plants"
              /\ target_plant_id # NoneId
              /\ \E k \in 1..Len(plants) : plants[k].id = target_plant_id
              /\ requests[i].plant = target_plant_id
  /\ (pc \in {"plants", "select", "prompt", "loop", "export"}) =>
        access_token \in Tokens

\* credentials typed at the prompt, a login, a listing of two plants, a
\* choice, and two day requests
C11_Witness ==
  /\ username = "typed_u" /\ password = "typed_p"
  /\ Len(plants) = 2 /\ prompts >= 1
  /\ Len(requests) = 4
  /\ requests[3].kind = "day" /\ requests[4].kind = "day"
  /\ requests[4].token = access_token

\* ------------------------------------------------------------------------
\* The records of one day
\* ------------------------------------------------------------------------
\* the seconds after midnight that a time string of the responses explored
\* stands for as HH:MM:SS or HH:MM, and -1 for the others
TimeOfDay(t) ==
  CASE t = T_0830 -> 8 * 3600 + 30 * 60
    [] t = T_083000 -> 8 * 3600 + 30 * 60
    [] t = T_0900 -> 9 * 3600
    [] OTHER -> 0 - 1

\* the text a value of the responses explored is shown as
Shown(v) ==
  CASE v = V_123_0 -> <<49, 50, 51>>
    [] OTHER -> v

\* the last day fetch got a response body that was restructured
Restructured ==
  /\ daily_result.outcome.kind = "body"
  /\ daily_result.outcome.success
  /\ daily_result.outcome.has_infos

\* the series of that response, and the positions <<series, record>> of its
\* records
LastInfos == daily_result.outcome.infos

RecordsOf(infos) ==
  UNION {{<<i, j>> : j \in 1..Len(infos[i].records)} : i \in 1..Len(infos)}

RecordAt(p) == LastInfos[p[1]].records[p[2]]

\* the two tests of a record: its time reads as HH:MM:SS or HH:MM, and its
\* value is there
PassesTests(p) == TimeOfDay(RecordAt(p).time) >= 0 /\ RecordAt(p).value # None

HasLabel(p) == LastInfos[p[1]].label # None /\ LastInfos[p[1]].label # <<>>

KeyOf(p) == <<daily_result.date, TimeOfDay(RecordAt(p).time)>>

ColumnOf(p) == header_name(LastInfos[p[1]])

\* record p is found in the result under its key and column, with its value
Holds(p) ==
  /\ KeyOf(p) \in DOMAIN daily_result.data
  /\ ColumnOf(p) \in DOMAIN daily_result.data[KeyOf(p)]
  /\ daily_result.data[KeyOf(p)][ColumnOf(p)] = Shown(RecordAt(p).value)

\* q is a later record than p of the same day, for the same time and column,
\* that passes the tests
Replaces(q, p) ==
  /\ Before(p, q) /\ HasLabel(q) /\ PassesTests(q)
  /\ KeyOf(q) = KeyOf(p) /\ ColumnOf(q) = ColumnOf(p)

\* C12 as stated: after a day's response was restructured, a record is in the
\* result exactly when it passes the two tests, every record that passes is
\* there with its own column and value, and the day is absent exactly when no
\* record of any series passes.
C12_RecordEntersIffTestsPass ==
  Restructured =>
    /\ \A p \in RecordsOf(LastInfos) : PassesTests(p) <=> Holds(p)
    /\ daily_result.kind = "absent" <=>
         ~ \E p \in RecordsOf(LastInfos) : PassesTests(p)

\* C12 amended: a record of a series that has a label is in the result
\* exactly when it passes the two tests, with its own column and with its
\* value unless a later record for the same time and column passes too; the
\* records of a series without a label never enter; every cell of the result
\* is a record that passed; and the day is absent exactly when no record of
\* a labelled series passes.
C12_LabelledRecordEntersIffTestsPass ==
  Restructured =>
    LET recs == RecordsOf(LastInfos)
        data == daily_result.data
    IN /\ daily_result.kind \in {"absent", "data"}
       /\ \A p \in recs :
            /\ (HasLabel(p) /\ PassesTests(p)) =>
                  /\ KeyOf(p) \in DOMAIN data
                  /\ ColumnOf(p) \in DOMAIN data[KeyOf(p)]
                  /\ Holds(p) \/ \E q \in recs : Replaces(q, p)
       /\ \A k \in DOMAIN data : \A h \in DOMAIN data[k] :
            \E p \in recs :
               /\ HasLabel(p) /\ PassesTests(p)
               /\ KeyOf(p) = k /\ ColumnOf(p) = h
               /\ Holds(p)
       /\ daily_result.kind = "absent" <=>
            ~ \E p \in recs : HasLabel(p) /\ PassesTests(p)
       /\ daily_result.kind = "absent" => data = <<>>

\* a day whose response has a record with a time that does not parse, a
\* record without a value and a series without a label, and still returns
\* the record that passes
C12_Witness ==
  /\ Restructured
  /\ LastInfos = InfosLoad
  /\ daily_result.kind = "data"
  /\ \E p \in RecordsOf(LastInfos) : HasLabel(p) /\ ~PassesTests(p)
  /\ \E p \in RecordsOf(LastInfos) : ~HasLabel(p) /\ PassesTests(p)
  /\ \E p \in RecordsOf(LastInfos) : HasLabel(p) /\ PassesTests(p) /\ Holds(p)

\* ------------------------------------------------------------------------
\* The keys of the rows
\* ------------------------------------------------------------------------
\* every key the last day fetch returned has the date that was asked for
ReturnedKeysOfDay ==
  \A k \in DOMAIN daily_result.data : DateOf(k) = daily_result.date

\* every key of the rows has a date of the range for which a day request
\* was made
KeysOfFetchedDays ==
  \A k \in DOMAIN all_data_by_datetime :
     /\ start_dt <= DateOf(k) /\ DateOf(k) <= end_dt
     /\ \E i \in 1..Len(requests) :
           requests[i].kind = "day" /\ requests[i].date = DateOf(k)
     /\ pc = "loop" => DateOf(k) < current_loop_date

\* C13: the keys a day fetch returns have the date of that day; the keys of
\* the rows have dates of the range that were fetched already; the keys of a
\* day are none of the keys of the days before it; and merging a day leaves
\* every row of the days before it as it was.
C13_DaysDoNotCollide ==
  [][/\ ReturnedKeysOfDay'
     /\ KeysOfFetchedDays'
     /\ (IsFetchStep /\ daily_result'.kind = "data") =>
           /\ DOMAIN daily_result'.data # {}
           /\ DOMAIN daily_result'.data \cap DOMAIN all_data_by_datetime = {}
           /\ DOMAIN all_data_by_datetime' =
                DOMAIN all_data_by_datetime \cup DOMAIN daily_result'.data
           /\ \A k \in DOMAIN all_data_by_datetime :
                 all_data_by_datetime'[k] = all_data_by_datetime[k]
           /\ \A k \in DOMAIN daily_result'.data :
                 all_data_by_datetime'[k] = daily_result'.data[k]]_vars

\* the third day of a range was merged into rows of the two days before it,
\* all three days with a row for the same time of day
C13_Witness ==
  /\ daily_result.kind = "data"
  /\ daily_result.date = start_dt + 2
  /\ \E t \in {TimeOfDay(T_0900)} :
        \A d \in start_dt..(start_dt + 2) :
           <<d, t>> \in DOMAIN all_data_by_datetime

====
